---------------------------- MODULE Spec2Model ----------------------------
(* A model of app.py: the invoice generator's placeholder substitution,   *)
(* trailing-paragraph trim, ledger scan, TOTP session guard and the       *)
(* generate-invoice request with its two converters.                      *)
(*                                                                        *)
(* Text is modelled as a sequence of one-character strings, so that the   *)
(* regular expressions, str methods and filename sanitising of the source *)
(* are computed character by character.  The symbol "U+0663" stands for   *)
(* the single character ARABIC-INDIC DIGIT THREE (category Nd).           *)
EXTENDS Integers, Sequences, FiniteSets, TLC

VARIABLES
    outdir,        \* OUTPUT_DIR: file name -> what the file holds
    scanMonth,     \* argument of the last get_next_suffix_for_month call
    scanResult,    \* its return value
    paragraph,     \* a paragraph: its runs, each [text, bold], bold being
                   \* "True", "False" or "None" (unset, inherited)
    replacements,  \* the replacement map handed to the substitution
    paraOrig,      \* the paragraph as it was before the substitution
    paraDone,      \* whether replace_placeholders_in_paragraph has run
    block,         \* a body, header or footer: its paragraphs and tables
    blockOrig,     \* the block as it was before the trim
    trimDone,      \* whether remove_trailing_empty_paragraphs_from_block has run
    totpFile,      \* auth_totp_secret.txt: the enrolled secret, or "none"
    session,       \* each client's Flask session
    verified,      \* history: the client's last login verified its code
                   \* against the enrolled secret and it has not logged out
    pc,            \* each client's position in generate_invoice, or "idle"
    rq,            \* the locals of the client's generate_invoice in flight
    resp,          \* the last response each client received
    now            \* int(time.time())

scanVars == <<scanMonth, scanResult>>
paraVars == <<paragraph, replacements, paraOrig, paraDone>>
trimVars == <<block, blockOrig, trimDone>>
authVars == <<totpFile, session, verified>>
webVars == <<authVars, pc, rq, resp, now>>
pureVars == <<scanVars, paraVars, trimVars>>
vars == <<outdir, scanVars, paraVars, trimVars, webVars>>

---------------------------------------------------------------------------
(* Characters and Python's str / int / format primitives                  *)

AsciiDigits == {"0", "1", "2", "3", "4", "5", "6", "7", "8", "9"}

\* A decimal digit outside ASCII: str.isdigit() and the regex class \d
\* accept it, int() reads it, encode("ascii", "ignore") drops it.
NonAsciiDigits == {"U+0663"}

\* str.isdigit() on one character / the regex class \d of a str pattern.
IsDigitChar(ch) == ch \in AsciiDigits \cup NonAsciiDigits

DigitVal(ch) ==
    CASE ch = "0" -> 0 [] ch = "1" -> 1 [] ch = "2" -> 2 [] ch = "3" -> 3
      [] ch = "4" -> 4 [] ch = "5" -> 5 [] ch = "6" -> 6 [] ch = "7" -> 7
      [] ch = "8" -> 8 [] ch = "9" -> 9 [] ch = "U+0663" -> 3

DigitChar(d) ==
    CASE d = 0 -> "0" [] d = 1 -> "1" [] d = 2 -> "2" [] d = 3 -> "3"
      [] d = 4 -> "4" [] d = 5 -> "5" [] d = 6 -> "6" [] d = 7 -> "7"
      [] d = 8 -> "8" [] d = 9 -> "9"

\* int(s) for a non-empty string of decimal digits.
RECURSIVE ParseInt(_)
ParseInt(s) ==
    IF s = <<>> THEN 0
    ELSE 10 * ParseInt(SubSeq(s, 1, Len(s) - 1)) + DigitVal(s[Len(s)])

\* str(n) for n >= 0.
RECURSIVE IntToStr(_)
IntToStr(n) ==
    IF n < 10 THEN <<DigitChar(n)>>
    ELSE IntToStr(n \div 10) \o <<DigitChar(n % 10)>>

\* f"{n:02d}"
Format02d(n) ==
    LET s == IntToStr(n) IN IF Len(s) < 2 THEN <<"0">> \o s ELSE s

\* s.startswith(p, i) with 1-based i.
StartsWithAt(s, p, i) ==
    /\ i >= 1
    /\ i + Len(p) - 1 <= Len(s)
    /\ SubSeq(s, i, i + Len(p) - 1) = p

\* p in s
Contains(s, p) == \E i \in 1..(Len(s) + 1) : StartsWithAt(s, p, i)

EndsWith(s, p) == Len(s) >= Len(p) /\ StartsWithAt(s, p, Len(s) - Len(p) + 1)

---------------------------------------------------------------------------
(* Ledger scan                                                            *)

GBDash == <<"G", "B", "-">>
DotPdf == <<".", "p", "d", "f">>

\* Path.glob("*.pdf") on one directory entry (case-sensitive match).
GlobPdf(name) == EndsWith(name, DotPdf)

\* Path.stem: the name without its last suffix; a leading or a trailing dot
\* starts no suffix.
PathStem(name) ==
    LET dots == {i \in 1..Len(name) : name[i] = "."}
        last == IF dots = {} THEN 0
                ELSE CHOOSE i \in dots : \A j \in dots : j <= i
    IN IF last > 1 /\ last < Len(name) THEN SubSeq(name, 1, last - 1) ELSE name

\* The longest run of \d characters of s starting at position i.
RECURSIVE DigitRun(_, _)
DigitRun(s, i) ==
    IF i <= Len(s) /\ IsDigitChar(s[i]) THEN <<s[i]>> \o DigitRun(s, i + 1)
    ELSE <<>>

\* Whether rf"GB-{re.escape(month_year)}-(\d+)" matches s at position i.
SuffixPatternAt(month_year, s, i) ==
    /\ StartsWithAt(s, GBDash \o month_year \o <<"-">>, i)
    /\ DigitRun(s, i + Len(month_year) + 4) # <<>>

\* pattern.search(name).group(1): the digits of the leftmost match, or <<>>
\* when the pattern matches nowhere.
SuffixPatternSearch(month_year, s) ==
    LET hits == {i \in 1..Len(s) : SuffixPatternAt(month_year, s, i)}
    IN IF hits = {} THEN <<>>
       ELSE LET i == CHOOSE k \in hits : \A j \in hits : k <= j
            IN DigitRun(s, i + Len(month_year) + 4)

\* The loop of get_next_suffix_for_month over the entries still to visit.
RECURSIVE ScanLoop(_, _, _)
ScanLoop(month_year, names, max_suffix) ==
    IF names = {} THEN max_suffix
    ELSE LET path == CHOOSE n \in names : TRUE
             m == SuffixPatternSearch(month_year, PathStem(path))
             val == ParseInt(m)
         IN ScanLoop(month_year, names \ {path},
                     IF GlobPdf(path) /\ m # <<>> /\ val > max_suffix
                     THEN val ELSE max_suffix)

\* A scan that returns the largest suffix found, not the one after it.
get_next_suffix_for_month_off(month_year, names) ==
    Format02d(ScanLoop(month_year, names, 0))

get_next_suffix_for_month(month_year, names) ==
    Format02d(ScanLoop(month_year, names, 0) + 1)


---------------------------------------------------------------------------
(* The web application's state                                            *)

Clients == {"c1", "c2"}

NoForm == [y_value |-> <<>>, date |-> <<>>, invoice_suffix |-> <<>>]

\* The locals of generate_invoice; fx, conv1, conv2 and rendered are history:
\* what the request has touched so far, how each converter ended, and whose
\* document the converter that succeeded read.
NoRq ==
    [ form |-> NoForm, auth |-> FALSE, doc |-> <<>>, tmp_docx |-> <<>>,
      output_pdf |-> <<>>, converted_ok |-> FALSE, conversion_error |-> <<>>,
      fx |-> {}, conv1 |-> "", conv2 |-> "", rendered |-> "" ]

\* A response; auth and rq are history: whether the session was verified
\* when the request came in, and the locals the handler ended with.
NoResp ==
    [ h |-> "", status |-> 0, to |-> "", body |-> <<>>, auth |-> FALSE,
      rq |-> NoRq ]

NoSession == [authenticated |-> FALSE, setup_tmp_secret |-> "none"]

\* No secret enrolled, nobody logged in, no request in flight.
WebIdle ==
    /\ totpFile = "none"
    /\ session = [c \in Clients |-> NoSession]
    /\ verified = [c \in Clients |-> FALSE]
    /\ pc = [c \in Clients |-> "idle"]
    /\ rq = [c \in Clients |-> NoRq]
    /\ resp = [c \in Clients |-> NoResp]
    /\ now = 0

---------------------------------------------------------------------------
(* Specification SpecScan: get_next_suffix_for_month applied to every     *)
(* output directory of at most MaxFiles entries of the catalogue.         *)

MaxFiles == 3

\* What a file holds: <<who filled the document in, its invoice number, _>>.
\* A file that no request wrote holds ExtDoc.
\* The third component tells whether writing the file replaced an earlier
\* file of the same name.
ExtDoc == <<"ext", <<>>, FALSE>>

M0125 == <<"0", "1", "2", "5">>
M0225 == <<"0", "2", "2", "5">>
Months == {M0125, M0225}

Friendly == <<"G", "_", "B", "U", "I", "L", "D", "C", "O", "N", "_",
              "I", "n", "v", "o", "i", "c", "e", "_", "-", "_">>

Token(month_year, digits) == GBDash \o month_year \o <<"-">> \o digits

\* Entries a directory may hold: invoices of two months, a three-digit
\* neighbour, a non-PDF, an upper-case extension, a token without digits, a
\* name holding two tokens, a name of a longer month field, a non-ASCII
\* digit, and a PDF without any token.
ScanCatalogue ==
    { Token(M0125, <<"0", "1">>) \o DotPdf,
      Token(M0125, <<"0", "3">>) \o DotPdf,
      Token(M0225, <<"0", "9">>) \o DotPdf,
      Friendly \o Token(M0125, <<"9", "9">>) \o DotPdf,
      Friendly \o Token(M0225, <<"2">>) \o DotPdf,
      Token(M0125, <<"0", "7">>) \o <<".", "d", "o", "c", "x">>,
      Token(M0125, <<"0", "8">>) \o <<".", "P", "D", "F">>,
      Token(M0125, <<>>) \o DotPdf,
      Token(M0125, <<"0", "2">>) \o <<"_">> \o Token(M0125, <<"0", "6">>) \o DotPdf,
      Token(M0125 \o <<"0">>, <<"0", "4">>) \o DotPdf,
      Token(M0125, <<"U+0663">>) \o DotPdf,
      Token(M0225, <<"1", "2">>) \o <<".", "5">> \o DotPdf,
      <<"n", "o", "t", "e", "s">> \o DotPdf }

Directories ==
    { [n \in d |-> ExtDoc] :
        d \in {d \in SUBSET ScanCatalogue : Cardinality(d) <= MaxFiles} }

InitScan ==
    /\ outdir \in Directories
    /\ scanMonth = <<>>
    /\ scanResult = <<>>
    /\ paragraph = <<>>
    /\ replacements = <<>>
    /\ paraOrig = <<>>
    /\ paraDone = FALSE
    /\ block = <<>>
    /\ blockOrig = <<>>
    /\ trimDone = FALSE
    /\ WebIdle

Scan(month_year) ==
    /\ scanMonth' = month_year
    /\ scanResult' = get_next_suffix_for_month(month_year, DOMAIN outdir)
    /\ UNCHANGED <<outdir, paraVars, trimVars, webVars>>

NextScan == \E month_year \in Months : Scan(month_year)

SpecScan == InitScan /\ [][NextScan]_vars

\* The numbers the scan is to count for a month: of every entry with the
\* .pdf extension, the digits that follow the leftmost "GB-<MMYY>-" which
\* digits follow, read as a decimal number.
LeftmostTokenAt(month_year, s, i) ==
    /\ SuffixPatternAt(month_year, s, i)
    /\ \A j \in 1..(i - 1) : ~SuffixPatternAt(month_year, s, j)

CountedSuffixes(month_year, names) ==
    UNION { { ParseInt(DigitRun(n, i + Len(month_year) + 4)) :
                i \in {i \in 1..Len(n) : LeftmostTokenAt(month_year, n, i)} } :
            n \in {n \in names : EndsWith(n, DotPdf)} }

---------------------------------------------------------------------------
(* Placeholder substitution                                               *)

\* "{{" + identifier + "}}"
Ph(identifier) == <<"{", "{">> \o identifier \o <<"}", "}">>

K_base_amo == Ph(<<"b", "a", "s", "e", "_", "a", "m", "o">>)
K_cgst_c == Ph(<<"c", "g", "s", "t", "_", "c">>)
K_sgst_c == Ph(<<"s", "g", "s", "t", "_", "c">>)
K_tax_t == Ph(<<"t", "a", "x", "_", "t">>)
K_sub_total_words == Ph(<<"s", "u", "b", "_", "t", "o", "t", "a", "l", "_", "w", "o", "r", "d", "s">>)
K_tax_to_words == Ph(<<"t", "a", "x", "_", "t", "o", "_", "w", "o", "r", "d", "s">>)
K_sub_total == Ph(<<"s", "u", "b", "_", "t", "o", "t", "a", "l">>)
K_date == Ph(<<"d", "a", "t", "e">>)
K_hsn == Ph(<<"h", "s", "n">>)

BOLD_KEYS ==
    {K_base_amo, K_cgst_c, K_sgst_c, K_tax_t, K_sub_total_words, K_tax_to_words}

BOLD_PARAGRAPH_KEYS == {K_sub_total_words, K_tax_to_words, K_sub_total}

\* ''.join(...) over a sequence of texts.
RECURSIVE Join(_)
Join(texts) == IF texts = <<>> THEN <<>> ELSE Head(texts) \o Join(Tail(texts))

FullText(runs) == Join([i \in 1..Len(runs) |-> runs[i].text])

\* The length of the longest run of characters other than "}" from position i.
RECURSIVE NonCloseRun(_, _)
NonCloseRun(s, i) ==
    IF i <= Len(s) /\ s[i] # "}" THEN 1 + NonCloseRun(s, i + 1) ELSE 0

\* PLACEHOLDER_RE matched at position i: the position of its last character,
\* or 0 when it does not match there.  [^}]+ is greedy and cannot give back
\* a character that would be the first "}" of the closing pair.
PlaceholderEnd(s, i) ==
    IF StartsWithAt(s, <<"{", "{">>, i)
    THEN LET n == NonCloseRun(s, i + 2)
         IN IF n >= 1 /\ StartsWithAt(s, <<"}", "}">>, i + 2 + n)
            THEN i + 2 + n + 1 ELSE 0
    ELSE 0

\* PLACEHOLDER_RE.finditer(s) from position pos on: the spans <<start, end>>
\* of the successive leftmost non-overlapping matches.
RECURSIVE FindIter(_, _)
FindIter(s, pos) ==
    LET hits == {i \in pos..Len(s) : PlaceholderEnd(s, i) # 0}
    IN IF hits = {} THEN <<>>
       ELSE LET i == CHOOSE k \in hits : \A j \in hits : k <= j
            IN <<<<i, PlaceholderEnd(s, i)>>>> \o FindIter(s, PlaceholderEnd(s, i) + 1)

\* A lookup that yields the empty string for a key the map does not hold.
DictGet_blank(d, key, default) == IF key \in DOMAIN d THEN d[key] ELSE <<>>

\* replacements.get(placeholder, placeholder)
DictGet(d, key, default) == IF key \in DOMAIN d THEN d[key] ELSE default

\* A bold flag that wants both conditions instead of either.
SegmentBold_and(paragraph_should_be_bold, placeholder) ==
    paragraph_should_be_bold /\ placeholder \in BOLD_KEYS

\* The bold flag of the segment that replaces a placeholder.
SegmentBold(paragraph_should_be_bold, placeholder) ==
    paragraph_should_be_bold \/ placeholder \in BOLD_KEYS

\* The for loop over the matches: the segments appended from match k on,
\* idx being the 1-based position after the previous match.
RECURSIVE SegmentsFrom(_, _, _, _, _, _)
SegmentsFrom(full_text, repl, matches, k, idx, pbold) ==
    IF k > Len(matches)
    THEN IF idx <= Len(full_text)
         THEN <<[text |-> SubSeq(full_text, idx, Len(full_text)), bold |-> pbold]>>
         ELSE <<>>
    ELSE LET start == matches[k][1]
             end == matches[k][2]
             placeholder == SubSeq(full_text, start, end)
         IN (IF start > idx
             THEN <<[text |-> SubSeq(full_text, idx, start - 1), bold |-> pbold]>>
             ELSE <<>>)
            \o <<[text |-> DictGet(repl, placeholder, placeholder),
                  bold |-> SegmentBold(pbold, placeholder)]>>
            \o SegmentsFrom(full_text, repl, matches, k + 1, end + 1, pbold)

\* paragraph.add_run(text) for each non-empty segment; r.bold is set to
\* True for a bold segment and left unset (None) otherwise.
RECURSIVE AddRuns(_)
AddRuns(segments) ==
    IF segments = <<>> THEN <<>>
    ELSE (IF Head(segments).text = <<>> THEN <<>>
          ELSE <<[text |-> Head(segments).text,
                  bold |-> IF Head(segments).bold THEN "True" ELSE "None"]>>)
         \o AddRuns(Tail(segments))

\* The runs of the paragraph after replace_placeholders_in_paragraph.
replace_placeholders_in_paragraph(runs, repl) ==
    LET full_text == FullText(runs)
        matches == FindIter(full_text, 1)
        paragraph_should_be_bold ==
            \E k \in BOLD_PARAGRAPH_KEYS : Contains(full_text, k)
        segments == SegmentsFrom(full_text, repl, matches, 1, 1,
                                 paragraph_should_be_bold)
    IN IF ~Contains(full_text, <<"{", "{">>) THEN runs
       ELSE IF matches = <<>> THEN runs
       ELSE [i \in 1..Len(runs) |-> [runs[i] EXCEPT !.text = <<>>]]
            \o AddRuns(segments)


---------------------------------------------------------------------------
(* Specification SpecPara: replace_placeholders_in_paragraph applied to   *)
(* every paragraph of at most MaxRuns runs of the catalogue, under each   *)
(* of three replacement maps.                                             *)

MaxRuns == 3

\* Runs a template paragraph may be split into: brace pairs and single
\* braces, an identifier, whole tokens, the two halves of a token, and a
\* bold literal.
RunCatalogue ==
    { [text |-> <<"{", "{">>, bold |-> "None"],
      [text |-> <<"}", "}">>, bold |-> "None"],
      [text |-> <<"{">>, bold |-> "None"],
      [text |-> <<"}">>, bold |-> "None"],
      [text |-> <<"d", "a", "t", "e">>, bold |-> "None"],
      [text |-> K_base_amo, bold |-> "None"],
      [text |-> <<"{", "{", "s", "u", "b", "_", "t", "o", "t", "a", "l">>, bold |-> "False"],
      [text |-> <<"_", "w", "o", "r", "d", "s", "}", "}">>, bold |-> "None"],
      [text |-> K_hsn, bold |-> "None"],
      [text |-> <<"N", "o", ":", " ">>, bold |-> "True"] }

RECURSIVE SeqsUpTo(_, _)
SeqsUpTo(S, n) ==
    IF n = 0 THEN {<<>>}
    ELSE LET shorter == SeqsUpTo(S, n - 1)
         IN shorter \cup {Append(q, x) : q \in {q \in shorter : Len(q) = n - 1}, x \in S}

\* Replacement maps: the fields of an invoice (with an empty HSN code), the
\* empty map, and a map whose HSN code is itself the text of a token.
ReplacementMaps ==
    { [k \in {K_date, K_base_amo, K_sub_total, K_sub_total_words, K_hsn} |->
         CASE k = K_date -> <<"0", "5", "/", "0", "1", "/", "2", "0", "2", "5">>
           [] k = K_base_amo -> <<"8", "6", "4", ".", "4", "1">>
           [] k = K_sub_total -> <<"1", "0", "2", "0", ".", "0", "0">>
           [] k = K_sub_total_words -> <<"O", "n", "e", " ", "T", "h", "o", "u", "s", "a", "n", "d">>
           [] k = K_hsn -> <<>>],
      <<>>,
      [k \in {K_date, K_hsn} |->
         CASE k = K_date -> <<"0", "5", "/", "0", "1", "/", "2", "0", "2", "5">> [] k = K_hsn -> K_date] }

InitPara ==
    /\ outdir = <<>>
    /\ scanMonth = <<>>
    /\ scanResult = <<>>
    /\ paragraph \in SeqsUpTo(RunCatalogue, MaxRuns)
    /\ replacements \in ReplacementMaps
    /\ paraOrig = paragraph
    /\ paraDone = FALSE
    /\ block = <<>>
    /\ blockOrig = <<>>
    /\ trimDone = FALSE
    /\ WebIdle

ReplaceInParagraph ==
    /\ ~paraDone
    /\ paragraph' = replace_placeholders_in_paragraph(paragraph, replacements)
    /\ paraDone' = TRUE
    /\ UNCHANGED <<outdir, scanVars, replacements, paraOrig, trimVars, webVars>>

NextPara == ReplaceInParagraph

SpecPara == InitPara /\ [][NextPara]_vars

\* A token of a text: a span that opens with "{{", closes with "}}" and
\* holds at least one character, none of them "}", in between.
IsTokenSpan(s, a, b) ==
    /\ 1 <= a /\ a + 4 <= b /\ b <= Len(s)
    /\ s[a] = "{" /\ s[a + 1] = "{"
    /\ s[b - 1] = "}" /\ s[b] = "}"
    /\ \A k \in (a + 2)..(b - 2) : s[k] # "}"

\* The text read left to right from position i: a token is replaced by its
\* value in the map when it is a key and copied when it is not, and each
\* character outside a token is copied.  Each piece is <<text, token>>, the
\* token being <<>> for a literal character.
RECURSIVE Pieces(_, _, _)
Pieces(s, repl, i) ==
    IF i > Len(s) THEN <<>>
    ELSE LET ends == {b \in i..Len(s) : IsTokenSpan(s, i, b)}
         IN IF ends = {}
            THEN <<<<<<s[i]>>, <<>>>>>> \o Pieces(s, repl, i + 1)
            ELSE LET b == CHOOSE e \in ends : TRUE
                     tok == SubSeq(s, i, b)
                 IN <<<<IF tok \in DOMAIN repl THEN repl[tok] ELSE tok, tok>>>>
                    \o Pieces(s, repl, b + 1)

Substituted(s, repl) ==
    LET ps == Pieces(s, repl, 1) IN Join([i \in 1..Len(ps) |-> ps[i][1]])

HasToken(s) == \E a \in 1..Len(s), b \in 1..Len(s) : IsTokenSpan(s, a, b)

\* C2: after the substitution the concatenated run texts are the original
\* concatenated text with every token that is a key of the map replaced by
\* its value, every other token and all text outside tokens unchanged.
C2_TextIsSubstituted ==
    paraDone => FullText(paragraph) = Substituted(FullText(paraOrig), replacements)

\* A paragraph whose token is split over several runs, with a token the map
\* holds, a token it does not hold and literal text, after the substitution.
C2_Witness ==
    /\ paraDone
    /\ Len(paraOrig) = MaxRuns
    /\ \A i \in 1..Len(paraOrig) : ~HasToken(paraOrig[i].text)
    /\ LET ps == Pieces(FullText(paraOrig), replacements, 1)
       IN /\ \E i \in 1..Len(ps) : ps[i][2] # <<>> /\ ps[i][2] \in DOMAIN replacements
          /\ FullText(paragraph) # FullText(paraOrig)

\* The literal stretches between tokens merged, each piece with the bold
\* flag the policy gives it: <<text, bold>>.
RECURSIVE Merged(_, _, _)
Merged(ps, lit, pbold) ==
    IF ps = <<>> THEN (IF lit = <<>> THEN <<>> ELSE <<<<lit, pbold>>>>)
    ELSE IF Head(ps)[2] = <<>> THEN Merged(Tail(ps), lit \o Head(ps)[1], pbold)
    ELSE (IF lit = <<>> THEN <<>> ELSE <<<<lit, pbold>>>>)
         \o (IF Head(ps)[1] = <<>> THEN <<>>
             ELSE <<<<Head(ps)[1], pbold \/ Head(ps)[2] \in BOLD_KEYS>>>>)
         \o Merged(Tail(ps), <<>>, pbold)

EmittedRuns == SubSeq(paragraph, Len(paraOrig) + 1, Len(paragraph))

\* C3: when a token is found, the runs emitted are the non-empty literal
\* stretches and replacements in order, and each is bold exactly when a
\* paragraph-bold key is a substring of the full text or the run replaces a
\* token of the segment-bold set.
C3_BoldPolicy ==
    (paraDone /\ HasToken(FullText(paraOrig))) =>
        LET s == FullText(paraOrig)
            pbold == \E k \in BOLD_PARAGRAPH_KEYS :
                         \E i \in 1..Len(s) : StartsWithAt(s, k, i)
            want == Merged(Pieces(s, replacements, 1), <<>>, pbold)
        IN /\ Len(EmittedRuns) = Len(want)
           /\ \A i \in 1..Len(want) :
                 /\ EmittedRuns[i].text = want[i][1]
                 /\ (EmittedRuns[i].bold = "True") = want[i][2]

\* A paragraph without a paragraph-bold key whose segment-bold token was
\* replaced: that run is bold and a literal run beside it is not.
C3_Witness ==
    /\ paraDone
    /\ ~(\E k \in BOLD_PARAGRAPH_KEYS : Contains(FullText(paraOrig), k))
    /\ \E i \in 1..Len(EmittedRuns) : EmittedRuns[i].bold = "True"
    /\ \E i \in 1..Len(EmittedRuns) : EmittedRuns[i].bold # "True"
    /\ K_base_amo \in DOMAIN replacements
    /\ Contains(FullText(paraOrig), K_base_amo)


---------------------------------------------------------------------------
(* Trailing empty paragraph trim.  A block is the sequence of its child   *)
(* elements in document order: [kind |-> "p", runs |-> <<text, ...>>] for *)
(* a paragraph, [kind |-> "tbl"] for a table.                             *)

Whitespace == {" "}

\* bool(text and text.strip())
HasInk(text) == \E i \in 1..Len(text) : text[i] \notin Whitespace

is_paragraph_empty(p) ==
    IF HasInk(Join(p.runs)) THEN FALSE
    ELSE ~(\E i \in 1..Len(p.runs) : HasInk(p.runs[i]))

\* block.paragraphs: the positions of the paragraph children, in order;
\* tables are not among them.
ParagraphPositions(blk) == {i \in 1..Len(blk) : blk[i].kind = "p"}

\* parent.remove(p_el)
RemoveAt(blk, i) == SubSeq(blk, 1, i - 1) \o SubSeq(blk, i + 1, Len(blk))

\* The while loop of remove_trailing_empty_paragraphs_from_block.
RECURSIVE remove_trailing_empty_paragraphs_from_block(_)
remove_trailing_empty_paragraphs_from_block(blk) ==
    LET ps == ParagraphPositions(blk)
    IN IF ps = {} THEN blk
       ELSE LET last == CHOOSE i \in ps : \A j \in ps : j <= i
            IN IF is_paragraph_empty(blk[last])
               THEN remove_trailing_empty_paragraphs_from_block(RemoveAt(blk, last))
               ELSE blk

---------------------------------------------------------------------------
(* Specification SpecTrim: the trim applied to every block of at most     *)
(* MaxItems children.                                                     *)

MaxItems == 4

BlockItems ==
    { [kind |-> "tbl"],
      [kind |-> "p", runs |-> <<>>],
      [kind |-> "p", runs |-> <<<<" ">>, <<>>>>],
      [kind |-> "p", runs |-> <<<<"a">>>>],
      [kind |-> "p", runs |-> <<<<" ">>, <<"b", " ">>>>] }

InitTrim ==
    /\ outdir = <<>>
    /\ scanMonth = <<>>
    /\ scanResult = <<>>
    /\ paragraph = <<>>
    /\ replacements = <<>>
    /\ paraOrig = <<>>
    /\ paraDone = FALSE
    /\ block \in SeqsUpTo(BlockItems, MaxItems)
    /\ blockOrig = block
    /\ trimDone = FALSE
    /\ WebIdle

TrimBlock ==
    /\ ~trimDone
    /\ block' = remove_trailing_empty_paragraphs_from_block(block)
    /\ trimDone' = TRUE
    /\ UNCHANGED <<outdir, scanVars, paraVars, blockOrig, webVars>>

NextTrim == TrimBlock

SpecTrim == InitTrim /\ [][NextTrim]_vars

\* A paragraph without non-whitespace text in any run.
BlankParagraph(item) ==
    /\ item.kind = "p"
    /\ \A i \in 1..Len(item.runs) :
           \A k \in 1..Len(item.runs[i]) : item.runs[i][k] = " "

\* The number of children the block keeps when the blank paragraphs at its
\* end, and only those, are removed.
KeptLength(blk) ==
    LET stops == {i \in 1..Len(blk) : ~BlankParagraph(blk[i])}
    IN IF stops = {} THEN 0 ELSE CHOOSE i \in stops : \A j \in stops : j <= i

\* C7: the trim removes exactly the maximal run of empty paragraphs at the
\* end of the block; tables and every other paragraph, an empty paragraph
\* followed by a table or by a non-empty paragraph included, stay.
C7_TrimsOnlyBlockEnd ==
    trimDone => block = SubSeq(blockOrig, 1, KeptLength(blockOrig))

\* What the trim does remove: the empty paragraphs that end the sequence of
\* the block's paragraphs, wherever the tables stand.
C7_TrimsParagraphListEnd ==
    trimDone =>
        LET ps == {i \in 1..Len(blockOrig) : blockOrig[i].kind = "p"}
            stops == {i \in ps : ~BlankParagraph(blockOrig[i])}
            lastInk == IF stops = {} THEN 0
                       ELSE CHOOSE i \in stops : \A j \in stops : j <= i
            keep == {i \in 1..Len(blockOrig) : i \notin ps \/ i <= lastInk}
        IN /\ Len(block) = Cardinality(keep)
           /\ \A i \in keep :
                  block[Cardinality({j \in keep : j <= i})] = blockOrig[i]


---------------------------------------------------------------------------
(* Request parsing and file names of generate_invoice                     *)

Letters ==
    {"A", "B", "C", "D", "E", "F", "G", "H", "I", "J", "K", "L", "M", "N", "O", "P", "Q", "R", "S", "T", "U", "V", "W", "X", "Y", "Z",
     "a", "b", "c", "d", "e", "f", "g", "h", "i", "j", "k", "l", "m", "n",
     "o", "p", "q", "r", "s", "t", "u", "v", "w", "x", "y", "z"}

\* str.strip() for texts whose only whitespace is the space.
RECURSIVE LStrip(_)
LStrip(s) == IF s # <<>> /\ Head(s) \in Whitespace THEN LStrip(Tail(s)) ELSE s

RECURSIVE RStrip(_)
RStrip(s) ==
    IF s # <<>> /\ s[Len(s)] \in Whitespace THEN RStrip(SubSeq(s, 1, Len(s) - 1))
    ELSE s

Strip(s) == RStrip(LStrip(s))

\* str.isdigit(): non-empty and every character a digit (of any script).
IsDigitStr(s) == s # <<>> /\ \A i \in 1..Len(s) : IsDigitChar(s[i])

\* Whether float(s) returns: a run of digits with at most one "." in it
\* (the literals the requests of this model carry).
FloatParses(s) ==
    /\ \E i \in 1..Len(s) : IsDigitChar(s[i])
    /\ \A i \in 1..Len(s) : IsDigitChar(s[i]) \/ s[i] = "."
    /\ Cardinality({i \in 1..Len(s) : s[i] = "."}) <= 1

\* s.split(sep) for a one-character separator.
RECURSIVE Split(_, _)
Split(s, sep) ==
    LET at == {i \in 1..Len(s) : s[i] = sep}
    IN IF at = {} THEN <<s>>
       ELSE LET i == CHOOSE k \in at : \A j \in at : k <= j
            IN <<SubSeq(s, 1, i - 1)>> \o Split(SubSeq(s, i + 1, Len(s)), sep)

IsLeap(y) == (y % 4 = 0 /\ y % 100 # 0) \/ y % 400 = 0

DaysInMonth(y, m) ==
    IF m = 2 THEN (IF IsLeap(y) THEN 29 ELSE 28)
    ELSE IF m \in {4, 6, 9, 11} THEN 30 ELSE 31

\* datetime.strptime(s, "%Y-%m-%d"): <<year, month, day>>, or <<>> when it
\* raises ValueError.
StrpTime(s) ==
    LET parts == Split(s, "-")
    IN IF /\ Len(parts) = 3
          /\ \A i \in 1..3 : IsDigitStr(parts[i])
          /\ Len(parts[1]) = 4
          /\ Len(parts[2]) \in {1, 2}
          /\ Len(parts[3]) \in {1, 2}
       THEN LET y == ParseInt(parts[1])
                m == ParseInt(parts[2])
                d == ParseInt(parts[3])
            IN IF y >= 1 /\ m \in 1..12 /\ d >= 1 /\ d <= DaysInMonth(y, m)
               THEN <<y, m, d>> ELSE <<>>
       ELSE <<>>

\* strftime("%m%y")
StrfMonthYear(date) == Format02d(date[2]) \o Format02d(date[1] % 100)

\* f"GB-{month_year}-{invoice_suffix}"
InvoiceNo(month_year, invoice_suffix) ==
    GBDash \o month_year \o <<"-">> \o invoice_suffix

\* f"G BUILDCON Invoice - {invoice_no}.pdf"
PdfFilename(invoice_no) == <<"G", " ", "B", "U", "I", "L", "D", "C", "O", "N", " ", "I", "n", "v", "o", "i", "c", "e", " ", "-", " ">> \o invoice_no \o DotPdf

\* "_".join(s.split()): the words of s joined by one underscore each.
RECURSIVE JoinWords(_, _)
JoinWords(s, started) ==
    IF s = <<>> THEN <<>>
    ELSE IF Head(s) \in Whitespace THEN JoinWords(Tail(s), started)
    ELSE LET n == CHOOSE k \in 1..Len(s) :
                      /\ \A i \in 1..k : s[i] \notin Whitespace
                      /\ k = Len(s) \/ s[k + 1] \in Whitespace
         IN (IF started THEN <<"_">> ELSE <<>>)
            \o SubSeq(s, 1, n) \o JoinWords(SubSeq(s, n + 1, Len(s)), TRUE)

RECURSIVE Filter(_, _)
Filter(s, keep) ==
    IF s = <<>> THEN <<>>
    ELSE (IF Head(s) \in keep THEN <<Head(s)>> ELSE <<>>) \o Filter(Tail(s), keep)

RECURSIVE Reject(_, _)
Reject(s, drop) ==
    IF s = <<>> THEN <<>>
    ELSE (IF Head(s) \in drop THEN <<>> ELSE <<Head(s)>>) \o Reject(Tail(s), drop)

RECURSIVE StripChars(_, _)
StripChars(s, cs) ==
    IF s # <<>> /\ Head(s) \in cs THEN StripChars(Tail(s), cs)
    ELSE IF s # <<>> /\ s[Len(s)] \in cs THEN StripChars(SubSeq(s, 1, Len(s) - 1), cs)
    ELSE s

\* werkzeug's secure_filename: NFKD leaves the characters of this model as
\* they are, encode("ascii", "ignore") drops the non-ASCII ones, a path
\* separator becomes a space, the words are joined by "_", every character
\* outside [A-Za-z0-9_.-] is dropped, and "." and "_" are stripped from both
\* ends.
secure_filename(filename) ==
    LET ascii == Reject(filename, NonAsciiDigits)
        spaced == [i \in 1..Len(ascii) |-> IF ascii[i] = "/" THEN " " ELSE ascii[i]]
        joined == JoinWords(spaced, FALSE)
        kept == Filter(joined, Letters \cup AsciiDigits \cup {"_", ".", "-"})
    IN StripChars(kept, {".", "_"})

\* f"tmp_generated_{timestamp}.docx"
TmpDocx(timestamp) ==
    <<"t", "m", "p", "_", "g", "e", "n", "e", "r", "a", "t", "e", "d", "_">> \o IntToStr(timestamp) \o <<".", "d", "o", "c", "x">>

\* Path(tmp_docx).with_suffix(".pdf").name
WithSuffixPdf(name) == PathStem(name) \o DotPdf


---------------------------------------------------------------------------
(* Authentication                                                         *)

Secrets == {"s1", "s2"}

\* What a client may type as a passcode: the code an authenticator holding
\* secret s shows within the accepted window (named by s), a code no
\* authenticator shows, or nothing.
Codes == Secrets \cup {"wrong", ""}

\* pyotp's TOTP(secret).verify(code, valid_window=1)
verify_totp_code(secret, code) == code = secret

\* A guard that lets every request through.
login_required_off(c) == TRUE

\* login_required: whether the wrapped handler runs.
login_required(c) == session[c].authenticated

Redirect(h, to, c) ==
    [NoResp EXCEPT !.h = h, !.status = 302, !.to = to, !.auth = verified[c]]

\* The answer of login_required to a request it refuses.
LoginRedirect(h, c) == Redirect(h, "login", c)

Reply(h, status, body, c) ==
    [NoResp EXCEPT !.h = h, !.status = status, !.body = body, !.auth = verified[c]]

setup_2fa(c, method, code) ==
    /\ pc[c] = "idle"
    /\ IF method = "GET"
       THEN /\ \E secret \in Secrets :
                 session' = IF totpFile # "none" THEN session
                            ELSE [session EXCEPT ![c].setup_tmp_secret = secret]
            /\ resp' = [resp EXCEPT ![c] = Reply("setup_2fa", 200, <<>>, c)]
            /\ UNCHANGED totpFile
       ELSE IF session[c].setup_tmp_secret = "none"
       THEN /\ resp' = [resp EXCEPT ![c] = Redirect("setup_2fa", "setup_2fa", c)]
            /\ UNCHANGED <<totpFile, session>>
       ELSE IF verify_totp_code(session[c].setup_tmp_secret, code)
       THEN /\ totpFile' = session[c].setup_tmp_secret
            /\ session' = [session EXCEPT ![c].setup_tmp_secret = "none"]
            /\ resp' = [resp EXCEPT ![c] = Redirect("setup_2fa", "login", c)]
       ELSE /\ resp' = [resp EXCEPT ![c] = Redirect("setup_2fa", "setup_2fa", c)]
            /\ UNCHANGED <<totpFile, session>>
    /\ UNCHANGED <<outdir, pureVars, verified, pc, rq, now>>

login(c, method, code) ==
    /\ pc[c] = "idle"
    /\ IF method = "GET"
       THEN /\ resp' = [resp EXCEPT ![c] = Reply("login", 200, <<>>, c)]
            /\ UNCHANGED <<session, verified>>
       ELSE IF totpFile = "none"
       THEN /\ resp' = [resp EXCEPT ![c] = Redirect("login", "setup_2fa", c)]
            /\ UNCHANGED <<session, verified>>
       ELSE IF code = ""
       THEN /\ resp' = [resp EXCEPT ![c] = Redirect("login", "login", c)]
            /\ UNCHANGED <<session, verified>>
       ELSE IF ~verify_totp_code(totpFile, code)
       THEN /\ resp' = [resp EXCEPT ![c] = Redirect("login", "login", c)]
            /\ UNCHANGED <<session, verified>>
       ELSE /\ session' = [session EXCEPT ![c].authenticated = TRUE]
            /\ verified' = [verified EXCEPT ![c] = TRUE]
            /\ resp' = [resp EXCEPT ![c] = Redirect("login", "index", c)]
    /\ UNCHANGED <<outdir, pureVars, totpFile, pc, rq, now>>

logout(c) ==
    /\ pc[c] = "idle"
    /\ session' = [session EXCEPT ![c] = NoSession]
    /\ verified' = [verified EXCEPT ![c] = FALSE]
    /\ resp' = [resp EXCEPT ![c] = Redirect("logout", "login", c)]
    /\ UNCHANGED <<outdir, pureVars, totpFile, pc, rq, now>>

---------------------------------------------------------------------------
(* Protected routes                                                       *)

\* datetime.now().strftime("%m%y"): the runs of this model happen in
\* January 2025.
CurrentMonth == M0125

\* The file names list_existing_invoices reports.
ListedInvoices == {n \in DOMAIN outdir : GlobPdf(n)}

index(c) ==
    /\ pc[c] = "idle"
    /\ resp' = [resp EXCEPT ![c] =
           IF ~login_required(c) THEN LoginRedirect("index", c)
           ELSE Reply("index", 200,
                      <<get_next_suffix_for_month(CurrentMonth, DOMAIN outdir),
                        ListedInvoices>>, c)]
    /\ UNCHANGED <<outdir, pureVars, authVars, pc, rq, now>>

next_suffix(c, date_value) ==
    /\ pc[c] = "idle"
    /\ resp' = [resp EXCEPT ![c] =
           IF ~login_required(c) THEN LoginRedirect("next_suffix", c)
           ELSE IF date_value = <<>> THEN Reply("next_suffix", 400, <<>>, c)
           ELSE IF StrpTime(date_value) = <<>> THEN Reply("next_suffix", 400, <<>>, c)
           ELSE Reply("next_suffix", 200,
                      get_next_suffix_for_month(StrfMonthYear(StrpTime(date_value)),
                                                DOMAIN outdir), c)]
    /\ UNCHANGED <<outdir, pureVars, authVars, pc, rq, now>>

\* str.lower() on the letters of a file extension.
Lower(s) ==
    [i \in 1..Len(s) |->
        CASE s[i] = "P" -> "p" [] s[i] = "D" -> "d" [] s[i] = "F" -> "f"
          [] OTHER -> s[i]]

download_file(c, filename) ==
    /\ pc[c] = "idle"
    /\ resp' = [resp EXCEPT ![c] =
           IF ~login_required(c) THEN LoginRedirect("download_file", c)
           ELSE IF \/ Contains(filename, <<"/">>)
                   \/ Contains(filename, <<"\\">>)
                   \/ Contains(filename, <<".", ".">>)
                THEN Reply("download_file", 400, <<>>, c)
           ELSE IF filename \notin DOMAIN outdir
                THEN Reply("download_file", 404, <<>>, c)
           ELSE IF ~EndsWith(Lower(filename), DotPdf)
                THEN Reply("download_file", 400, <<>>, c)
           ELSE Reply("download_file", 200, outdir[filename], c)]
    /\ UNCHANGED <<outdir, pureVars, authVars, pc, rq, now>>


---------------------------------------------------------------------------
(* generate_invoice, one action per stretch of code between two accesses  *)
(* to the output directory                                                *)

\* A write that leaves a file that is already there as it is.
WriteFile_keep(dir, name, doc) ==
    IF name \in DOMAIN dir THEN dir
    ELSE [n \in DOMAIN dir \cup {name} |->
             IF n = name THEN <<doc[1], doc[2], FALSE>> ELSE dir[n]]

\* A file written (created, or replaced when it exists) with a document.
WriteFile(dir, name, doc) ==
    [n \in DOMAIN dir \cup {name} |->
        IF n = name THEN <<doc[1], doc[2], name \in DOMAIN dir>> ELSE dir[n]]

\* os.remove / the source side of shutil.move
RemoveFile(dir, name) == [n \in DOMAIN dir \ {name} |-> dir[n]]

Finish(c, status, body) ==
    /\ resp' = [resp EXCEPT ![c] =
                   [ h |-> "generate", status |-> status, to |-> "", body |-> body,
                     auth |-> rq[c].auth, rq |-> rq[c] ]]
    /\ pc' = [pc EXCEPT ![c] = "idle"]
    /\ rq' = [rq EXCEPT ![c] = NoRq]

\* Lines 317-380: the guard, the form validation, the template load and the
\* substitution, all on data of the request's own.  template is how
\* Document(UPLOAD_TEMPLATE) ends: "ok" or "fail".
generate_begin(c, form, template) ==
    /\ pc[c] = "idle"
    /\ LET early(status, fx) ==
               [ h |-> "generate", status |-> status, to |-> "", body |-> <<>>,
                 auth |-> verified[c],
                 rq |-> [NoRq EXCEPT !.form = form, !.auth = verified[c], !.fx = fx] ]
           invoice_suffix == Strip(form.invoice_suffix)
       IN IF ~login_required(c)
          THEN /\ resp' = [resp EXCEPT ![c] = LoginRedirect("generate", c)]
               /\ UNCHANGED <<pc, rq>>
          ELSE IF ~FloatParses(form.y_value)
          THEN /\ resp' = [resp EXCEPT ![c] = early(400, {})]
               /\ UNCHANGED <<pc, rq>>
          ELSE IF ~IsDigitStr(invoice_suffix)
          THEN /\ resp' = [resp EXCEPT ![c] = early(400, {})]
               /\ UNCHANGED <<pc, rq>>
          ELSE IF StrpTime(form.date) = <<>>
          THEN \* strptime raises ValueError, which nothing catches
               /\ resp' = [resp EXCEPT ![c] = early(500, {})]
               /\ UNCHANGED <<pc, rq>>
          ELSE IF template = "fail"
          THEN /\ resp' = [resp EXCEPT ![c] = early(500, {"template"})]
               /\ UNCHANGED <<pc, rq>>
          ELSE /\ rq' = [rq EXCEPT ![c] =
                     [NoRq EXCEPT
                        !.form = form,
                        !.auth = verified[c],
                        !.doc = <<c, InvoiceNo(StrfMonthYear(StrpTime(form.date)),
                                               invoice_suffix)>>,
                        !.fx = {"template"}]]
               /\ pc' = [pc EXCEPT ![c] = "save"]
               /\ UNCHANGED resp
    /\ UNCHANGED <<outdir, pureVars, authVars, now>>

\* Lines 382-394: the temporary DOCX named after the second it is saved in.
\* saved is whether doc.save returns.
generate_save(c, saved) ==
    /\ pc[c] = "save"
    /\ IF saved
       THEN /\ outdir' = WriteFile(outdir, TmpDocx(now), rq[c].doc)
            /\ rq' = [rq EXCEPT ![c].tmp_docx = TmpDocx(now),
                                ![c].output_pdf =
                                    secure_filename(PdfFilename(rq[c].doc[2])),
                                ![c].fx = @ \cup {"tmp_docx"}]
            /\ pc' = [pc EXCEPT ![c] = "conv1"]
            /\ UNCHANGED resp
       ELSE /\ Finish(c, 500, <<>>)
            /\ UNCHANGED outdir
    /\ UNCHANGED <<pureVars, authVars, now>>

Conv1Outcomes == {"ok", "silent", "raised", "import_failed"}

\* Lines 396-427: docx2pdf.  It writes the PDF ("ok"), returns without
\* having written one ("silent"), raises ("raised"), or cannot be imported.
generate_docx2pdf(c, outcome) ==
    /\ pc[c] = "conv1"
    /\ outcome \in {"ok", "silent"} => rq[c].tmp_docx \in DOMAIN outdir
    /\ outdir' = IF outcome = "ok"
                 THEN WriteFile(outdir, rq[c].output_pdf, outdir[rq[c].tmp_docx])
                 ELSE outdir
    /\ rq' = [rq EXCEPT
                ![c].conv1 = outcome,
                ![c].fx = @ \cup {"docx2pdf"}
                            \cup (IF outcome = "ok" THEN {"pdf"} ELSE {}),
                ![c].converted_ok = outcome \in {"ok", "silent"},
                ![c].rendered = IF outcome = "ok" THEN outdir[rq[c].tmp_docx][1] ELSE "",
                ![c].conversion_error =
                    CASE outcome = "raised" -> <<"docx2pdf conversion failed">>
                      [] outcome = "import_failed" -> <<"docx2pdf import failed">>
                      [] OTHER -> <<>>]
    /\ pc' = [pc EXCEPT ![c] = IF outcome \in {"ok", "silent"} THEN "cleanup"
                               ELSE "conv2"]
    /\ UNCHANGED <<pureVars, authVars, resp, now>>

LibreOfficeFailed == "LibreOffice conversion failed"

\* Lines 430-449: soffice is looked up and run.  It is not on the PATH
\* ("no_soffice"), exits non-zero ("run_failed"), or exits zero having
\* written tmp_generated_<ts>.pdf ("wrote") or nothing ("wrote_nothing").
generate_soffice(c, outcome) ==
    /\ pc[c] = "conv2"
    /\ outcome = "wrote" => rq[c].tmp_docx \in DOMAIN outdir
    /\ outdir' = IF outcome = "wrote"
                 THEN WriteFile(outdir, WithSuffixPdf(rq[c].tmp_docx),
                                outdir[rq[c].tmp_docx])
                 ELSE outdir
    /\ rq' = [rq EXCEPT
                ![c].fx = @ \cup {"soffice"},
                ![c].conv2 = IF outcome \in {"no_soffice", "run_failed"}
                             THEN outcome ELSE "ran",
                ![c].conversion_error =
                    IF outcome \in {"no_soffice", "run_failed"}
                    THEN @ \o <<LibreOfficeFailed>> ELSE @]
    /\ pc' = [pc EXCEPT ![c] = IF outcome \in {"no_soffice", "run_failed"}
                               THEN "cleanup" ELSE "move"]
    /\ UNCHANGED <<pureVars, authVars, resp, now>>

\* Lines 451-472: the PDF soffice wrote is looked for and moved onto the
\* output name, an older PDF of that name being removed first.  outcome is
\* how the removal and the move end: "ok", "remove_failed" or "move_failed".
generate_move(c, outcome) ==
    /\ pc[c] = "move"
    /\ LET tmp_pdf_path == WithSuffixPdf(rq[c].tmp_docx)
           output_pdf == rq[c].output_pdf
       IN IF tmp_pdf_path \notin DOMAIN outdir
          THEN /\ rq' = [rq EXCEPT ![c].conv2 = "no_output",
                                   ![c].conversion_error = @ \o <<LibreOfficeFailed>>]
               /\ UNCHANGED outdir
          ELSE IF outcome = "ok"
          THEN /\ outdir' = RemoveFile(WriteFile(outdir, output_pdf,
                                                 outdir[tmp_pdf_path]),
                                       tmp_pdf_path)
               /\ rq' = [rq EXCEPT ![c].conv2 = "ok",
                                   ![c].converted_ok = TRUE,
                                   ![c].rendered = outdir[tmp_pdf_path][1],
                                   ![c].fx = @ \cup {"pdf"}]
          ELSE /\ outdir' = IF outcome = "move_failed"
                            THEN RemoveFile(outdir, output_pdf) ELSE outdir
               /\ rq' = [rq EXCEPT ![c].conv2 = outcome,
                                   ![c].conversion_error = @ \o <<LibreOfficeFailed>>]
    /\ outcome = "remove_failed" => rq[c].output_pdf \in DOMAIN outdir
    /\ pc' = [pc EXCEPT ![c] = "cleanup"]
    /\ UNCHANGED <<pureVars, authVars, resp, now>>

\* Lines 474-479: the temporary DOCX is removed if it is there.
generate_cleanup(c) ==
    /\ pc[c] = "cleanup"
    /\ outdir' = RemoveFile(outdir, rq[c].tmp_docx)
    /\ pc' = [pc EXCEPT ![c] = "send"]
    /\ UNCHANGED <<pureVars, authVars, rq, resp, now>>

\* Lines 481-495: the failure message, or send_file(output_pdf); send_file
\* raises when the file is not there, which nothing catches.
generate_send(c) ==
    /\ pc[c] = "send"
    /\ IF ~rq[c].converted_ok THEN Finish(c, 500, rq[c].conversion_error)
       ELSE IF rq[c].output_pdf \in DOMAIN outdir
       THEN Finish(c, 200, outdir[rq[c].output_pdf])
       ELSE Finish(c, 500, <<>>)
    /\ UNCHANGED <<outdir, pureVars, authVars, now>>

\* A second passes.
MaxTime == 1

Tick ==
    /\ now < MaxTime
    /\ now' = now + 1
    /\ UNCHANGED <<outdir, pureVars, authVars, pc, rq, resp>>

\* A file is removed from the output directory by hand.
DeleteFile(name) ==
    /\ name \in DOMAIN outdir
    /\ outdir' = RemoveFile(outdir, name)
    /\ UNCHANGED <<pureVars, webVars>>


---------------------------------------------------------------------------
(* Requests                                                               *)

D_jan == <<"2", "0", "2", "5", "-", "0", "1", "-", "1", "5">>
D_feb == <<"2", "0", "2", "5", "-", "0", "2", "-", "0", "3">>
D_bad == <<"2", "0", "2", "5", "-", "1", "3", "-", "4", "0">>

Form(y_value, date, invoice_suffix) ==
    [y_value |-> y_value, date |-> date, invoice_suffix |-> invoice_suffix]

\* The state after the administrator enrolled a secret and every client
\* logged in with a code of it.
LoggedIn ==
    /\ totpFile = "s1"
    /\ session = [c \in Clients |-> [NoSession EXCEPT !.authenticated = TRUE]]
    /\ verified = [c \in Clients |-> TRUE]
    /\ pc = [c \in Clients |-> "idle"]
    /\ rq = [c \in Clients |-> NoRq]
    /\ resp = [c \in Clients |-> NoResp]
    /\ now = 0

PureIdle ==
    /\ scanMonth = <<>>
    /\ scanResult = <<>>
    /\ paragraph = <<>>
    /\ replacements = <<>>
    /\ paraOrig = <<>>
    /\ paraDone = FALSE
    /\ block = <<>>
    /\ blockOrig = <<>>
    /\ trimDone = FALSE

---------------------------------------------------------------------------
(* Specification SpecGen: one logged-in client sends generate requests,   *)
(* well-formed and not, and every step ends each way it can.              *)

GenForms ==
    { Form(y, d, x) : y \in {<<"1", "0", "0", "0">>, <<"a", "b", "c">>}, d \in {D_jan, D_bad},
                      x \in {<<"0", "1">>, <<"x", "1">>} }

InitGen == outdir = <<>> /\ PureIdle /\ LoggedIn

NextGen ==
    \/ \E form \in GenForms, template \in {"ok", "fail"} :
           generate_begin("c1", form, template)
    \/ \E saved \in BOOLEAN : generate_save("c1", saved)
    \/ \E outcome \in Conv1Outcomes : generate_docx2pdf("c1", outcome)
    \/ \E outcome \in {"no_soffice", "run_failed", "wrote", "wrote_nothing"} :
           generate_soffice("c1", outcome)
    \/ \E outcome \in {"ok", "remove_failed", "move_failed"} :
           generate_move("c1", outcome)
    \/ generate_cleanup("c1")
    \/ generate_send("c1")
    \/ Tick

SpecGen == InitGen /\ [][NextGen]_vars

\* The generate requests that have been answered, refused ones left out.
Answered == {c \in Clients : resp[c].h = "generate" /\ resp[c].to # "login"}

BadForm(form) ==
    \/ ~FloatParses(form.y_value)
    \/ ~IsDigitStr(Strip(form.invoice_suffix))
    \/ StrpTime(form.date) = <<>>

\* C4: a generate request with a non-numeric amount, a non-numeric suffix or
\* a malformed date is answered with a 4xx status, and it has loaded no
\* template, written no file and invoked no converter.
C4_BadInputIsClientError ==
    \A c \in Answered :
        BadForm(resp[c].rq.form) =>
            /\ resp[c].status \in 400..499
            /\ resp[c].rq.fx = {}

\* What does hold of such a request: nothing was processed, and the status
\* is 400 unless only the date is malformed, which ends in a 500.
C4_BadInputNothingProcessed ==
    \A c \in Answered :
        BadForm(resp[c].rq.form) =>
            /\ resp[c].rq.fx = {}
            /\ resp[c].status =
                 IF \/ ~FloatParses(resp[c].rq.form.y_value)
                    \/ ~IsDigitStr(Strip(resp[c].rq.form.invoice_suffix))
                 THEN 400 ELSE 500

\* A converter failed when it raised or left no PDF at the destination.
Conv1Failed(r) == r.conv1 \in {"raised", "import_failed", "silent"}
Conv2Attempted(r) == r.conv2 # ""
Conv2Failed(r) == r.conv2 \in {"no_soffice", "run_failed", "no_output",
                               "remove_failed", "move_failed"}

\* C5: once the temporary document is saved, LibreOffice is attempted
\* exactly when docx2pdf failed; the request is reported failed exactly when
\* both failed, and then the message holds both failures; when either
\* succeeded the PDF at the destination is sent.
C5_FallbackChain ==
    \A c \in Answered :
        LET r == resp[c].rq
        IN r.conv1 # "" =>
            /\ Conv2Attempted(r) <=> Conv1Failed(r)
            /\ resp[c].status = 500 <=> (Conv1Failed(r) /\ Conv2Failed(r))
            /\ (Conv1Failed(r) /\ Conv2Failed(r)) =>
                   /\ Len(resp[c].body) = 2
                   /\ resp[c].body[1] \in {"docx2pdf conversion failed",
                                           "docx2pdf import failed"}
                   /\ resp[c].body[2] = LibreOfficeFailed
            /\ (~Conv1Failed(r) \/ (Conv2Attempted(r) /\ ~Conv2Failed(r))) =>
                   /\ resp[c].status = 200
                   /\ resp[c].body[1] = r.rendered

---------------------------------------------------------------------------
(* Specification SpecLedger: one logged-in client issues invoices one     *)
(* after the other, every step succeeding, and files are deleted by hand  *)
(* between two requests.                                                   *)

Three_arabic == <<"U+0663">>

LedgerForms ==
    { Form(<<"1", "0", "0", "0">>, d, x) :
          d \in {D_jan, D_feb}, x \in {<<"0", "1">>, <<"0", "2">>, Three_arabic} }

InitLedger == outdir = <<>> /\ PureIdle /\ LoggedIn

NextLedger ==
    \/ \E form \in LedgerForms : generate_begin("c1", form, "ok")
    \/ generate_save("c1", TRUE)
    \/ generate_docx2pdf("c1", "ok")
    \/ generate_cleanup("c1")
    \/ generate_send("c1")
    \/ pc["c1"] = "idle" /\ \E name \in DOMAIN outdir : DeleteFile(name)

SpecLedger == InitLedger /\ [][NextLedger]_vars

\* The invoices whose PDF is in the output directory, each as the invoice
\* number the document in the file carries.
InvoicesOnDisk == {outdir[n][2] : n \in {m \in DOMAIN outdir : GlobPdf(m)}}

\* The month and the suffix of an invoice number GB-<MMYY>-<suffix>.
MonthOf(invoice_no) == SubSeq(invoice_no, Len(GBDash) + 1, Len(GBDash) + Len(M0125))
SuffixOf(invoice_no) ==
    SubSeq(invoice_no, Len(GBDash) + Len(M0125) + 2, Len(invoice_no))

\* C10: between two requests the next suffix of a month is greater than the
\* suffix of every invoice of that month whose PDF is in the directory.
C10_NextSuffixAboveIssued ==
    pc["c1"] = "idle" =>
        \A invoice_no \in InvoicesOnDisk :
            ParseInt(get_next_suffix_for_month(MonthOf(invoice_no), DOMAIN outdir))
                > ParseInt(SuffixOf(invoice_no))

\* The same for the invoices whose suffix is written in ASCII digits, which
\* are the ones the sanitized file name keeps.
C10_NextSuffixAboveAsciiIssued ==
    pc["c1"] = "idle" =>
        \A invoice_no \in InvoicesOnDisk :
            (\A i \in 1..Len(SuffixOf(invoice_no)) :
                 SuffixOf(invoice_no)[i] \in AsciiDigits) =>
            ParseInt(get_next_suffix_for_month(MonthOf(invoice_no), DOMAIN outdir))
                > ParseInt(SuffixOf(invoice_no))

---------------------------------------------------------------------------
(* Specification SpecRace: two logged-in clients each ask for the next    *)
(* suffix of January 2025 and generate an invoice with the suffix they     *)
(* were given, their requests interleaving step by step.                   *)

InitRace == outdir = <<>> /\ PureIdle /\ LoggedIn

\* The form a client submits after it asked for the next suffix.
RaceForm(c) == Form(<<"1", "0", "0", "0">>, D_jan, resp[c].body)

NextRace ==
    \E c \in Clients :
        \/ resp[c] = NoResp /\ next_suffix(c, D_jan)
        \/ resp[c].h = "next_suffix" /\ generate_begin(c, RaceForm(c), "ok")
        \/ generate_save(c, TRUE)
        \/ \E outcome \in {"ok", "raised"} : generate_docx2pdf(c, outcome)
        \/ \E outcome \in {"wrote", "run_failed"} : generate_soffice(c, outcome)
        \/ generate_move(c, "ok")
        \/ generate_cleanup(c)
        \/ generate_send(c)
        \/ Tick

SpecRace == InitRace /\ [][NextRace]_vars

\* The generate requests that were answered with a PDF.
Issued == {c \in Answered : resp[c].status = 200}

PdfsOnDisk == {n \in DOMAIN outdir : GlobPdf(n)}

\* C8: two clients that were issued an invoice of the same number were given
\* the same output file name, and once both are answered the directory
\* holds one PDF for the two, written over an earlier one of that name.
C8_SameSuffixOneFile ==
    \A c, d \in Issued :
        (c # d /\ resp[c].rq.doc[2] = resp[d].rq.doc[2]) =>
            /\ resp[c].rq.output_pdf = resp[d].rq.output_pdf
            /\ PdfsOnDisk = {resp[c].rq.output_pdf}
            /\ outdir[resp[c].rq.output_pdf][3]

\* Both clients were given the suffix 01 by the scan, both generated with it
\* and both were answered with a PDF.
C8_Witness ==
    /\ Issued = Clients
    /\ \A c \in Clients :
           /\ resp[c].rq.form.invoice_suffix = <<"0", "1">>
           /\ resp[c].rq.doc[2] = InvoiceNo(M0125, <<"0", "1">>)
    /\ Cardinality(PdfsOnDisk) = 1

\* The requests that hold a temporary DOCX of theirs.
Holding == {c \in Clients : pc[c] \in {"conv1", "conv2", "move", "cleanup"}}

\* C9: two requests in flight hold temporary DOCX files of different paths,
\* and the PDF a request made was rendered from the document it filled in.
C9_OwnTemporaryFile ==
    /\ \A c, d \in Holding : c # d => rq[c].tmp_docx # rq[d].tmp_docx
    /\ \A c \in Answered : resp[c].rq.rendered \in {"", c}

---------------------------------------------------------------------------
(* Specification SpecAuth: two clients, neither logged in and no secret   *)
(* enrolled, send requests in any order; the first of them also generates *)
(* invoices.                                                              *)

InitAuth == outdir = <<>> /\ PureIdle /\ WebIdle

AuthForm == Form(<<"1", "0", "0", "0">>, D_jan, <<"0", "1">>)

NextAuth ==
    \E c \in Clients :
        \/ \E method \in {"GET", "POST"}, code \in Codes : setup_2fa(c, method, code)
        \/ \E method \in {"GET", "POST"}, code \in Codes : login(c, method, code)
        \/ logout(c)
        \/ index(c)
        \/ next_suffix(c, D_jan)
        \/ download_file(c, secure_filename(PdfFilename(InvoiceNo(M0125, <<"0", "1">>))))
        \/ c = "c1" /\ generate_begin(c, AuthForm, "ok")
        \/ generate_save(c, TRUE)
        \/ generate_docx2pdf(c, "ok")
        \/ generate_cleanup(c)
        \/ generate_send(c)

SpecAuth == InitAuth /\ [][NextAuth]_vars

Protected == {"index", "next_suffix", "generate", "download_file"}

\* C6: the body of a protected handler runs only for a client that logged in
\* with a code of the enrolled secret and has not logged out since; any
\* other request to a protected handler is answered with a redirect to the
\* login page, and the output directory is as it was before the request.
C6_ProtectedNeedLogin ==
    /\ [](\A c \in Clients :
             /\ pc[c] # "idle" => rq[c].auth
             /\ resp[c].h \in Protected =>
                   IF resp[c].to = "login"
                   THEN ~resp[c].auth /\ resp[c].status = 302
                   ELSE resp[c].auth)
    /\ [][\A c \in Clients :
             (pc[c] = "idle" /\ resp'[c] # resp[c] /\ resp'[c].h \in Protected) =>
                 IF verified[c]
                 THEN resp'[c].to # "login"
                 ELSE resp'[c].to = "login" /\ outdir' = outdir /\ pc'[c] = "idle"]_vars

\* One client was issued an invoice after it logged in, while a request of
\* the other client, which is not logged in, was redirected to the login
\* page.
C6_Witness ==
    \E c, d \in Clients :
        /\ resp[c].h = "generate" /\ resp[c].status = 200 /\ resp[c].auth
        /\ resp[d].h \in Protected /\ resp[d].to = "login" /\ ~verified[d]
        /\ outdir # <<>>

=============================================================================
